---- MODULE Spec2Model ----
(***************************************************************************)
(* Group ledger of the finance backend: groups, memberships, invitations,  *)
(* transactions and expense splits, modelled from the Django sources under *)
(* finance_app/backend/config.  Amounts are integers in minor units        *)
(* (DecimalField(decimal_places=2): 1 = 0.01).                             *)
(***************************************************************************)
EXTENDS Integers, FiniteSets, Sequences, TLC

\* ------------------------------------------------------------------------
\* Bounds of the model
\* ------------------------------------------------------------------------
MaxNewGroups == 1

\* largest transaction amount tried, in minor units
MaxAmount == 3

\* longest list of explicit shares tried in a split request
MaxShares == 2

\* largest interval of a recurrence rule tried
MaxInterval == 2

\* largest number of reminder rows followed
MaxReminders == 3

\* number of instants of time told apart
MaxClock == 2

\* largest number of expenses of the month in the budgeted category
MaxExpenses == 3

\* largest number of verification codes requested
MaxCodes == 2

\* largest number of webhooks the provider delivers
MaxWebhooks == 3

\* largest number of invitations of the large group pending at once
MaxPending == 2

\* ------------------------------------------------------------------------
\* Identities
\* ------------------------------------------------------------------------
\* the four accounts created by seed_data (section 1)
Users == {"alice", "bob", "charlie", "diana"}

\* the two groups created by seed_data (section 5)
SeedGroupIds == {"coloc", "voyage"}

NewGroupPool == <<"g1", "g2", "g3">>

\* groups created through POST /groups/
NewGroupIds == {NewGroupPool[i] : i \in 1..MaxNewGroups}

GroupIds == SeedGroupIds \cup NewGroupIds

\* APP_SETTINGS['MAX_GROUP_MEMBERS']
MAX_GROUP_MEMBERS == 50

NoUser == "nobody"

NoGroup == [exists |-> FALSE, owner |-> NoUser, is_active |-> FALSE]

NoMember == [role |-> "none", status |-> "none"]

\* Value of self.pk that Group.save compares with: None
NoPk == "None"

\* categories present after seed_data (section 2): two of the system
\* categories of create_default_categories and alice's custom "Crypto"
CatIds == {"Alimentation", "Salaire", "Crypto"}

NoCategory == [exists |-> FALSE, type |-> "none", is_system |-> FALSE, user |-> NoUser]

SeedCategory(c) ==
    IF c = "Alimentation"
    THEN [exists |-> TRUE, type |-> "expense", is_system |-> TRUE, user |-> NoUser]
    ELSE IF c = "Salaire"
    THEN [exists |-> TRUE, type |-> "income", is_system |-> TRUE, user |-> NoUser]
    ELSE [exists |-> TRUE, type |-> "both", is_system |-> FALSE, user |-> "alice"]

\* no transaction row
NoTx == [exists |-> FALSE, user |-> NoUser, group |-> "none", amount |-> 0,
         type |-> "none", category |-> "none", is_deleted |-> FALSE]

\* marks "no split row for this user"
Absent == -1

NoSplits == [u \in Users |-> Absent]

\* a member the balance report does not list
NoLine == [listed |-> FALSE, total_paid |-> 0, total_owed |-> 0, balance |-> 0]

\* no balance was asked for yet
NoReport == [group |-> "none",
             summary |-> [income |-> 0, expense |-> 0, balance |-> 0],
             members |-> [u \in Users |-> NoLine]]

\* 300.00 in hundredths
ThreeHundred == 30000

\* a complete request that is not being served
NotCompleting == [pc |-> "idle", id |-> 0, create_next |-> FALSE, r |-> 0]

\* Category.budget = None
NoBudget == -1

\* what get_budget_status returns when it returns None
NoStatus == [returned |-> "None", budget |-> 0, spent |-> 0, remaining |-> 0,
             percentage |-> 0, is_over_budget |-> FALSE, is_alert |-> FALSE,
             alert_threshold |-> 0]

\* a category as it is created without budget fields (budget null,
\* budget_alert_threshold 80), no expense this month, get_budget_status not
\* called yet; its owner with the default notification preferences; no
\* budget alert sent (BudgetAlertService._recent_alerts empty, -1 for a
\* missing key); check_all_budgets not run yet
NoBudgetCall == [budget |-> NoBudget, threshold |-> 80, spent |-> 0,
                 expenses |-> 0, called |-> FALSE, status |-> NoStatus,
                 email_budget_alerts |-> TRUE, alerts |-> 0,
                 recent_alerts |-> [warning |-> -1, over_budget |-> -1],
                 task |-> [ran |-> FALSE, at |-> 0, users_checked |-> 0,
                           errors |-> 0]]

\* no request to the verification views answered yet
NoAnswer == [view |-> "none", status |-> "none", reason |-> "none"]

\* no deposit initiated yet
NoPayment == [exists |-> FALSE, type |-> "none", status |-> "none", amount |-> 0]

\* a request that is not being served
NotSplitting == [pc |-> "idle", equal_split |-> FALSE, splits |-> <<>>, todo |-> <<>>]

\* the two requests that run concurrently
Procs == {"p1", "p2"}

\* a request slot with no request in it
Idle == [op |-> "idle", actor |-> NoUser, g |-> "none", target |-> NoUser,
         value |-> "none"]

VARIABLES
    groups,        \* table groups: GroupIds -> [exists, owner, is_active]
    members,       \* table group_members: GroupIds -> Users -> [role, status]
    invitations,   \* pending, unexpired rows of group_invitations: {<<g, u>>}
    inflight,      \* Procs -> membership request that passed its checks and
                   \* has not written yet (Idle when none)
    categories,    \* table categories: CatIds -> [exists, type, is_system, user]
    tx,            \* the transaction row the model follows
    splits,        \* rows of expense_splits of that transaction:
                   \* Users -> amount, Absent when the user has no row
    split_resp,    \* outcome of the last split request on it: "none",
                   \* "201" (created), "400" (rejected) or "500"
                   \* (IntegrityError)
    splitting,     \* Procs -> progress of a split request that is being
                   \* served (NotSplitting when none)
    balance_report,\* body of the last answer of GET /groups/{id}/balance/
                   \* (NoReport when none)
    reminders,     \* rows of the table reminders that the model follows: a
                   \* reminder and the occurrences created from it
    clock,         \* timezone.now(), counted in requests served so far
    completing,    \* Procs -> progress of a complete request that is being
                   \* served (NotCompleting when none)
    complete_resp, \* status of the last answer of POST
                   \* /reminders/{id}/complete/ ("none", "200", "400")
    budget_status, \* the budget fields of one category, what was spent
                   \* in it this month (hundredths), and what the last call
                   \* of Category.get_budget_status returned
    codes,         \* rows of email_verification_codes for one email and
                   \* the purpose registration, oldest first
    user_exists,   \* an account exists with that email
    auth_resp,     \* last answer of the views of views_verification.py
    payment,       \* the deposit row of the table payments that is followed
    wallet,        \* its user's wallet: balance, and the credits written
                   \* for that payment (wallet_transactions)
    webhooks,      \* number of rows of payment_webhooks
    crowd          \* a group followed by head count only: its active
                   \* members and its pending invitations, each for an
                   \* account of its own

vars == <<groups, members, invitations, inflight, categories, tx, splits,
          split_resp, splitting, balance_report, reminders, clock,
          completing, complete_resp, budget_status, codes, user_exists,
          auth_resp, payment, wallet, webhooks, crowd>>

reminderVars == <<reminders, clock, completing, complete_resp>>

accountVars == <<codes, user_exists, auth_resp>>

paymentVars == <<payment, wallet, webhooks>>

\* registration by code and payments
extVars == <<accountVars, paymentVars, crowd>>

\* what the group and finance writes never touch
auxVars == <<balance_report, reminderVars, budget_status, extVars>>

groupVars == <<groups, members, invitations>>

financeVars == <<categories, tx, splits, split_resp, splitting, auxVars>>

\* everything but the group tables
nonGroupVars == <<inflight, categories, tx, splits, split_resp, splitting,
                  auxVars>>

\* ------------------------------------------------------------------------
\* Group model helpers (groups/models.py)
\* ------------------------------------------------------------------------
\* Group.members_count
members_count(g) ==
    Cardinality({u \in Users : members[g][u].status = "active"})

\* Group.admins
admins(g) ==
    {u \in Users : members[g][u].role = "admin" /\ members[g][u].status = "active"}

\* Group.is_admin
is_admin(g, u) ==
    members[g][u].role = "admin" /\ members[g][u].status = "active"

\* Group.is_member
is_member(g, u) == members[g][u].status = "active"

\* The primary key a Group instance carries when save() starts.  UUIDModel.id
\* is declared with default=uuid.uuid4, and Model.__init__ assigns every
\* field its default, so the instance already has its uuid before the first
\* save; pk is never None.
PkAtSave(g) == g

\* Group.save: is_new = self.pk is None; the owner membership is inserted
\* only if is_new.
GroupSave(g, owner, mem) ==
    LET is_new == PkAtSave(g) = NoPk
    IN  IF is_new
        THEN [mem EXCEPT ![g][owner] = [role |-> "admin", status |-> "active"]]
        ELSE mem

\* activate() that re-opens the invitation instead of activating
activate_pending(m) == [m EXCEPT !.status = "pending"]

\* GroupMember.activate: status = ACTIVE, role untouched
activate(m) == [m EXCEPT !.status = "active"]

\* GroupMember.leave: status = LEFT, role untouched
leave(m) == [m EXCEPT !.status = "left"]

\* ------------------------------------------------------------------------
\* manage.py seed_data on the tables of this model.  Section 2 creates the
\* missing categories.  Section 5 creates both sample groups with
\* Group.objects.get_or_create (which runs Group.save) and, when a group was
\* created, inserts its other members explicitly.  Section 6 deletes the
\* non-deleted transactions of both groups (their splits cascade) before it
\* inserts its own sample rows, which the model does not follow.  Section 7
\* deletes the reminders of all its users before it inserts its samples
\* (not followed either).  Section 9
\* deletes the invitations of both groups; the one it inserts is for
\* newmember@example.com, an address without an account, which nobody can
\* accept.
\* ------------------------------------------------------------------------
SeedOwner(g) == IF g = "coloc" THEN "alice" ELSE "bob"

SeedExtraMembers(g) ==
    IF g = "coloc"
    THEN [u \in Users |->
            IF u \in {"bob", "charlie"}
            THEN [role |-> "member", status |-> "active"] ELSE NoMember]
    ELSE [u \in Users |->
            IF u = "alice" THEN [role |-> "member", status |-> "active"]
            ELSE IF u = "diana" THEN [role |-> "admin", status |-> "active"]
            ELSE NoMember]

\* one `Group.objects.get_or_create(...)` + `if created:` block
SeedOneGroup(g, grp, mem) ==
    IF grp[g].exists
    THEN mem
    ELSE LET saved == GroupSave(g, SeedOwner(g), mem)
         IN  [saved EXCEPT ![g] =
                [u \in Users |->
                    IF SeedExtraMembers(g)[u] # NoMember /\ saved[g][u] = NoMember
                    THEN SeedExtraMembers(g)[u] ELSE saved[g][u]]]

SeedData ==
    /\ groups' = [g \in GroupIds |->
                    IF g \in SeedGroupIds /\ ~groups[g].exists
                    THEN [exists |-> TRUE, owner |-> SeedOwner(g), is_active |-> TRUE]
                    ELSE groups[g]]
    /\ members' = SeedOneGroup("voyage", groups, SeedOneGroup("coloc", groups, members))
    /\ invitations' = {i \in invitations : i[1] \notin SeedGroupIds}
    /\ categories' = [c \in CatIds |->
                        IF categories[c].exists THEN categories[c] ELSE SeedCategory(c)]
    /\ IF tx.exists /\ ~tx.is_deleted /\ tx.group \in SeedGroupIds
       THEN tx' = NoTx /\ splits' = NoSplits
       ELSE UNCHANGED <<tx, splits>>
    /\ reminders' = <<>>
    /\ UNCHANGED <<inflight, split_resp, splitting, balance_report, clock,
                   completing, complete_resp, budget_status, extVars>>

\* Empty database after migration
Init ==
    /\ groups = [g \in GroupIds |-> NoGroup]
    /\ members = [g \in GroupIds |-> [u \in Users |-> NoMember]]
    /\ invitations = {}
    /\ inflight = [p \in Procs |-> Idle]
    /\ categories = [c \in CatIds |-> NoCategory]
    /\ tx = NoTx
    /\ splits = NoSplits
    /\ split_resp = "none"
    /\ splitting = [p \in Procs |-> NotSplitting]
    /\ balance_report = NoReport
    /\ reminders = <<>>
    /\ clock = 0
    /\ completing = [p \in Procs |-> NotCompleting]
    /\ complete_resp = "none"
    /\ budget_status = NoBudgetCall
    /\ codes = <<>>
    /\ user_exists = FALSE
    /\ auth_resp = NoAnswer
    /\ payment = NoPayment
    /\ wallet = [balance |-> 0, credits |-> 0]
    /\ webhooks = 0
    /\ crowd = [active |-> 1, pending |-> 0]

\* ------------------------------------------------------------------------
\* Group operations (groups/views.py, groups/serializers.py)
\* ------------------------------------------------------------------------
\* POST /groups/ : GroupCreateSerializer.create -> Group.save
GroupCreate(u) ==
    \E i \in 1..MaxNewGroups :
        LET g == NewGroupPool[i] IN
        /\ ~groups[g].exists
        /\ \A j \in 1..(i - 1) : groups[NewGroupPool[j]].exists
        /\ groups' = [groups EXCEPT ![g] =
                        [exists |-> TRUE, owner |-> u, is_active |-> TRUE]]
        /\ members' = GroupSave(g, u, members)
        /\ UNCHANGED invitations
        /\ UNCHANGED nonGroupVars

\* GroupViewSet.get_queryset: active groups where the user is an active member
GroupVisible(g, u) ==
    groups[g].exists /\ groups[g].is_active /\ is_member(g, u)

\* DELETE /groups/{id}/ : GroupViewSet.perform_destroy
CanDestroy(g, u) ==
    /\ GroupVisible(g, u)
    /\ groups[g].owner = u
    /\ ~(members_count(g) > 1)

GroupDestroy(u, g) ==
    /\ CanDestroy(g, u)
    /\ groups' = [groups EXCEPT ![g].is_active = FALSE]
    /\ UNCHANGED <<members, invitations>>
    /\ UNCHANGED nonGroupVars

\* POST /groups/{id}/invite/ : InviteToGroupView.post +
\* InviteToGroupSerializer.validate_email; the invited email is the one of
\* account `invitee`
CanInvite(g, actor, invitee) ==
    /\ groups[g].exists /\ groups[g].is_active
    /\ is_admin(g, actor)
    /\ ~(members_count(g) >= MAX_GROUP_MEMBERS)
    /\ ~is_member(g, invitee)
    /\ <<g, invitee>> \notin invitations

InviteToGroup(actor, g, invitee) ==
    /\ CanInvite(g, actor, invitee)
    /\ invitations' = invitations \cup {<<g, invitee>>}
    /\ UNCHANGED <<groups, members>>
    /\ UNCHANGED nonGroupVars

\* GroupInvitation.accept: get_or_create the membership, activate() it when
\* it already existed, mark the invitation accepted
AcceptResult(g, u, mem) ==
    IF mem[g][u] = NoMember
    THEN [mem EXCEPT ![g][u] = [role |-> "member", status |-> "active"]]
    ELSE [mem EXCEPT ![g][u] = activate(mem[g][u])]

\* POST /groups/invitations/{token}/ : AcceptInvitationView.post
AcceptInvitation(u, g) ==
    /\ <<g, u>> \in invitations
    /\ members' = AcceptResult(g, u, members)
    /\ invitations' = invitations \ {<<g, u>>}
    /\ UNCHANGED groups
    /\ UNCHANGED nonGroupVars

\* GroupInvitation.is_valid turns false when expires_at is reached
ExpireInvitation(u, g) ==
    /\ <<g, u>> \in invitations
    /\ invitations' = invitations \ {<<g, u>>}
    /\ UNCHANGED <<groups, members>>
    /\ UNCHANGED nonGroupVars

\* GroupMemberDetailView.get_group_and_member
GroupAndMember(g, target) ==
    groups[g].exists /\ groups[g].is_active /\ members[g][target].status = "active"

\* validate_role without its last-administrator test
CanPatchRole_NoLastAdminTest(g, actor, target, value) ==
    /\ GroupAndMember(g, target)
    /\ is_admin(g, actor)

\* PATCH /groups/{id}/members/{user}/ : GroupMemberDetailView.patch +
\* GroupMemberUpdateSerializer.validate_role
CanPatchRole(g, actor, target, value) ==
    /\ GroupAndMember(g, target)
    /\ is_admin(g, actor)
    /\ ~(target = actor /\ value = "member" /\ Cardinality(admins(g)) = 1)

PatchRole(actor, g, target, value) ==
    /\ CanPatchRole(g, actor, target, value)
    /\ members' = [members EXCEPT ![g][target].role = value]
    /\ UNCHANGED <<groups, invitations>>
    /\ UNCHANGED nonGroupVars

\* DELETE /groups/{id}/members/{user}/ : GroupMemberDetailView.delete
CanDeleteMember(g, actor, target) ==
    /\ GroupAndMember(g, target)
    /\ ~(~is_admin(g, actor) /\ actor # target)
    /\ ~(target = groups[g].owner)
    /\ ~(members[g][target].role = "admin" /\ Cardinality(admins(g)) = 1)

DeleteMember(actor, g, target) ==
    /\ CanDeleteMember(g, actor, target)
    /\ members' = [members EXCEPT ![g][target] = leave(members[g][target])]
    /\ UNCHANGED <<groups, invitations>>
    /\ UNCHANGED nonGroupVars

\* LeaveGroupSerializer.validate
CanLeave(g, u) ==
    /\ groups[g].exists /\ groups[g].is_active
    /\ is_member(g, u)
    /\ ~(is_admin(g, u) /\ Cardinality(admins(g)) = 1 /\ members_count(g) # 1)

\* POST /groups/{id}/leave/ : LeaveGroupView.post + LeaveGroupSerializer.save
LeaveGroup(u, g) ==
    /\ CanLeave(g, u)
    /\ members' = [members EXCEPT ![g][u] = leave(members[g][u])]
    /\ UNCHANGED <<groups, invitations>>
    /\ UNCHANGED nonGroupVars

Next ==
    \/ \E u \in Users : GroupCreate(u)
    \/ SeedData
    \/ \E u \in Users, g \in GroupIds : GroupDestroy(u, g)
    \/ \E a \in Users, g \in GroupIds, u \in Users : InviteToGroup(a, g, u)
    \/ \E u \in Users, g \in GroupIds : AcceptInvitation(u, g)
    \/ \E u \in Users, g \in GroupIds : ExpireInvitation(u, g)
    \/ \E a \in Users, g \in GroupIds, t \in Users, v \in {"admin", "member"} :
          PatchRole(a, g, t, v)
    \/ \E a \in Users, g \in GroupIds, t \in Users : DeleteMember(a, g, t)
    \/ \E u \in Users, g \in GroupIds : LeaveGroup(u, g)

Spec == Init /\ [][Next]_vars

\* ------------------------------------------------------------------------
\* The same membership mutations as the server runs them: no view opens a
\* transaction or takes a lock (settings.py has no ATOMIC_REQUESTS), so the
\* checks of a request read the committed rows, and its write reaches the
\* database at some later moment; another request may run in between.
\* ------------------------------------------------------------------------
\* GroupMemberDetailView.patch up to serializer.is_valid()
PatchRoleCheck(p, actor, g, target, value) ==
    /\ inflight[p] = Idle
    /\ CanPatchRole(g, actor, target, value)
    /\ inflight' = [inflight EXCEPT ![p] =
            [op |-> "patch", actor |-> actor, g |-> g, target |-> target,
             value |-> value]]
    /\ UNCHANGED <<groups, members, invitations>>
    /\ UNCHANGED financeVars

\* serializer.save(): ModelSerializer.update sets role on the instance loaded
\* by get_group_and_member (status ACTIVE) and calls instance.save(), which
\* writes every column of that instance
PatchRoleSave(p) ==
    /\ inflight[p].op = "patch"
    /\ members' = [members EXCEPT ![inflight[p].g][inflight[p].target] =
            [role |-> inflight[p].value, status |-> "active"]]
    /\ inflight' = [inflight EXCEPT ![p] = Idle]
    /\ UNCHANGED <<groups, invitations>>
    /\ UNCHANGED financeVars

\* GroupMemberDetailView.delete up to the last-administrator test
DeleteMemberCheck(p, actor, g, target) ==
    /\ inflight[p] = Idle
    /\ CanDeleteMember(g, actor, target)
    /\ inflight' = [inflight EXCEPT ![p] =
            [op |-> "delete", actor |-> actor, g |-> g, target |-> target,
             value |-> "none"]]
    /\ UNCHANGED <<groups, members, invitations>>
    /\ UNCHANGED financeVars

\* member.leave(): save(update_fields=['status', 'updated_at'])
DeleteMemberSave(p) ==
    /\ inflight[p].op = "delete"
    /\ members' = [members EXCEPT ![inflight[p].g][inflight[p].target] =
            leave(members[inflight[p].g][inflight[p].target])]
    /\ inflight' = [inflight EXCEPT ![p] = Idle]
    /\ UNCHANGED <<groups, invitations>>
    /\ UNCHANGED financeVars

\* LeaveGroupView.post up to serializer.is_valid()
LeaveCheck(p, u, g) ==
    /\ inflight[p] = Idle
    /\ CanLeave(g, u)
    /\ inflight' = [inflight EXCEPT ![p] =
            [op |-> "leave", actor |-> u, g |-> g, target |-> u,
             value |-> "none"]]
    /\ UNCHANGED <<groups, members, invitations>>
    /\ UNCHANGED financeVars

\* LeaveGroupSerializer.save: members.get(user, status=ACTIVE) raises
\* DoesNotExist when the row is no longer active, else member.leave()
LeaveSave(p) ==
    /\ inflight[p].op = "leave"
    /\ members' =
          IF is_member(inflight[p].g, inflight[p].target)
          THEN [members EXCEPT ![inflight[p].g][inflight[p].target] =
                    leave(members[inflight[p].g][inflight[p].target])]
          ELSE members
    /\ inflight' = [inflight EXCEPT ![p] = Idle]
    /\ UNCHANGED <<groups, invitations>>
    /\ UNCHANGED financeVars

NextRace ==
    \/ SeedData
    \/ \E p \in Procs, a \in Users, g \in GroupIds, t \in Users,
          v \in {"admin", "member"} : PatchRoleCheck(p, a, g, t, v)
    \/ \E p \in Procs : PatchRoleSave(p)
    \/ \E p \in Procs, a \in Users, g \in GroupIds, t \in Users :
          DeleteMemberCheck(p, a, g, t)
    \/ \E p \in Procs : DeleteMemberSave(p)
    \/ \E p \in Procs, u \in Users, g \in GroupIds : LeaveCheck(p, u, g)
    \/ \E p \in Procs : LeaveSave(p)

SpecRace == Init /\ [][NextRace]_vars

\* ------------------------------------------------------------------------
\* Transactions and categories (finances/views.py, finances/serializers.py)
\* The model follows one row of the table transactions.
\* ------------------------------------------------------------------------
\* a field the request body does not carry
Omitted == "omitted"

OmittedAmount == -1

TxTypes == {"income", "expense"}

CategoryTypes == {"income", "expense", "both"}

\* TransactionViewSet.get_queryset: the user's personal transactions, or the
\* transactions of a group where the user is an active member; not deleted
TxVisible(u) ==
    /\ tx.exists
    /\ ~tx.is_deleted
    /\ \/ tx.user = u /\ tx.group = "none"
       \/ tx.group # "none" /\ is_member(tx.group, u)

\* the category/type test of TransactionCreateSerializer.validate
TypeCompatible(category_type, transaction_type) ==
    category_type # "both" =>
        /\ ~(transaction_type = "income" /\ category_type # "income")
        /\ ~(transaction_type = "expense" /\ category_type # "expense")

\* TransactionCreateSerializer: validate_amount, validate_category,
\* validate_group run for the fields the body carries; validate() tests the
\* compatibility only `if category and transaction_type`
TxAttrsValid(u, cat, g, amt, type) ==
    /\ amt # OmittedAmount => amt > 0
    /\ cat # Omitted =>
          /\ categories[cat].exists
          /\ categories[cat].is_system \/ categories[cat].user = u
    /\ g \notin {Omitted, "none"} => groups[g].exists /\ is_member(g, u)
    /\ (cat # Omitted /\ type # Omitted) =>
          TypeCompatible(categories[cat].type, type)

\* ModelSerializer.update: setattr for every validated field, then save()
TxApply(t, cat, g, amt, type) ==
    [t EXCEPT !.category = IF cat = Omitted THEN @ ELSE cat,
              !.group = IF g = Omitted THEN @ ELSE g,
              !.amount = IF amt = OmittedAmount THEN @ ELSE amt,
              !.type = IF type = Omitted THEN @ ELSE type]

\* POST /transactions/ : category, amount and type are required, group is
\* optional (NULL when omitted)
TransactionCreate(u, cat, g, amt, type) ==
    /\ ~tx.exists
    /\ cat # Omitted /\ amt # OmittedAmount /\ type # Omitted
    /\ TxAttrsValid(u, cat, g, amt, type)
    /\ tx' = [exists |-> TRUE, user |-> u,
              group |-> IF g = Omitted THEN "none" ELSE g,
              amount |-> amt, type |-> type, category |-> cat,
              is_deleted |-> FALSE]
    /\ UNCHANGED <<groupVars, inflight, categories, splits, split_resp, splitting, auxVars>>

\* PUT /transactions/{id}/ : the required fields must all be present
TransactionUpdate(u, cat, g, amt, type) ==
    /\ TxVisible(u)
    /\ cat # Omitted /\ amt # OmittedAmount /\ type # Omitted
    /\ TxAttrsValid(u, cat, g, amt, type)
    /\ tx' = TxApply(tx, cat, g, amt, type)
    /\ UNCHANGED <<groupVars, inflight, categories, splits, split_resp, splitting, auxVars>>

\* PATCH /transactions/{id}/ : partial=True, any field may be missing
TransactionPartialUpdate(u, cat, g, amt, type) ==
    /\ TxVisible(u)
    /\ TxAttrsValid(u, cat, g, amt, type)
    /\ tx' = TxApply(tx, cat, g, amt, type)
    /\ UNCHANGED <<groupVars, inflight, categories, splits, split_resp, splitting, auxVars>>

\* DELETE /transactions/{id}/ : perform_destroy -> soft_delete
TransactionDestroy(u) ==
    /\ TxVisible(u)
    /\ tx' = [tx EXCEPT !.is_deleted = TRUE]
    /\ UNCHANGED <<groupVars, inflight, categories, splits, split_resp, splitting, auxVars>>

\* PATCH /categories/{id}/ with a body {type}: CategoryViewSet.get_queryset
\* is Category.get_for_user (system categories and the user's own);
\* CategorySerializer leaves `type` writable and has no object-level
\* validation
CategoryPartialUpdate(u, c, type) ==
    /\ categories[c].exists
    /\ categories[c].is_system \/ categories[c].user = u
    /\ categories' = [categories EXCEPT ![c].type = type]
    /\ UNCHANGED <<groupVars, inflight, tx, splits, split_resp, splitting, auxVars>>

\* DELETE /categories/{id}/ : perform_destroy returns without deleting for
\* a system category and for a category holding a live transaction of the
\* requester (the Response it builds is dropped, destroy answers 204);
\* instance.delete() raises ProtectedError while a transaction row, deleted
\* or not, still points to the category
CategoryDestroy(u, c) ==
    /\ categories[c].exists
    /\ categories[c].is_system \/ categories[c].user = u
    /\ categories' =
          IF \/ categories[c].is_system
             \/ tx.exists /\ tx.category = c
          THEN categories
          ELSE [categories EXCEPT ![c] = NoCategory]
    /\ UNCHANGED <<groupVars, inflight, tx, splits, split_resp, splitting, auxVars>>

NextTx ==
    \/ SeedData
    \/ \E u \in Users, c \in CatIds, g \in GroupIds \cup {"none", Omitted},
          a \in 0..MaxAmount, t \in TxTypes : TransactionCreate(u, c, g, a, t)
    \/ \E u \in Users, c \in CatIds, g \in GroupIds \cup {"none", Omitted},
          a \in 0..MaxAmount, t \in TxTypes : TransactionUpdate(u, c, g, a, t)
    \/ \E u \in Users, c \in CatIds \cup {Omitted},
          g \in GroupIds \cup {"none", Omitted},
          a \in (0..MaxAmount) \cup {OmittedAmount},
          t \in TxTypes \cup {Omitted} : TransactionPartialUpdate(u, c, g, a, t)
    \/ \E u \in Users : TransactionDestroy(u)
    \/ \E u \in Users, c \in CatIds, t \in CategoryTypes :
          CategoryPartialUpdate(u, c, t)
    \/ \E u \in Users, c \in CatIds : CategoryDestroy(u, c)

SpecTx == Init /\ [][NextTx]_vars

\* ------------------------------------------------------------------------
\* Splitting a group expense (TransactionViewSet.split)
\* Amounts are counted in minor units (hundredths).
\* ------------------------------------------------------------------------
\* one element of the `splits` list of a request that passes
\* ExpenseSplitCreateSerializer: an existing user and an amount > 0
ShareRows == [user : Users, amount : 1..MaxAmount]

ShareLists == UNION {[1..n -> ShareRows] : n \in 0..MaxShares}

\* request bodies of CreateSplitsSerializer
SplitRequests == [equal_split : BOOLEAN, splits : ShareLists]

RECURSIVE SumAmounts(_)
SumAmounts(s) == IF s = <<>> THEN 0 ELSE Head(s).amount + SumAmounts(Tail(s))

\* the serializer without the sum test of validate()
SplitRequestValid_NoSumTest(req) ==
    /\ req.splits # <<>>

\* CreateSplitsSerializer: at least one element (validate_splits), and the
\* sum test of validate(), which is skipped when equal_split is set
SplitRequestValid(req) ==
    /\ req.splits # <<>>
    /\ ~req.equal_split => SumAmounts(req.splits) = tx.amount

\* split() up to serializer.is_valid(): get_object, expense, group
CanSplit(actor, req) ==
    /\ TxVisible(actor)
    /\ tx.type = "expense"
    /\ tx.group # "none"
    /\ SplitRequestValid(req)

\* the value stored in a numeric(15,2) column for amount / member_count:
\* PostgreSQL rounds the quotient to two decimals, half away from zero
StoredShare(amount, member_count) ==
    (2 * amount + member_count) \div (2 * member_count)

\* equal mode adding each share to the row the member already has
EqualRows_Accumulating(g) ==
    [u \in Users |->
        IF is_member(g, u)
        THEN StoredShare(tx.amount, members_count(g))
                + (IF splits[u] # Absent THEN splits[u] ELSE 0)
        ELSE Absent]

\* equal mode: one row per active member of the group
EqualRows(g) ==
    [u \in Users |->
        IF is_member(g, u) THEN StoredShare(tx.amount, members_count(g))
        ELSE Absent]

\* explicit mode: ExpenseSplit.objects.create for each element in turn; the
\* create that meets an existing (transaction, user) row raises
\* IntegrityError and ends the loop, the rows written so far stay
RECURSIVE InsertRows(_, _)
InsertRows(s, tbl) ==
    IF s = <<>> THEN [tbl |-> tbl, ok |-> TRUE]
    ELSE IF tbl[Head(s).user] # Absent THEN [tbl |-> tbl, ok |-> FALSE]
    ELSE InsertRows(Tail(s), [tbl EXCEPT ![Head(s).user] = Head(s).amount])

\* what the handler does after is_valid(): delete the old rows, write the
\* new ones
SplitResult(equal_split, rows) ==
    IF equal_split THEN [tbl |-> EqualRows(tx.group), ok |-> TRUE]
    ELSE InsertRows(rows, NoSplits)

\* split() after get_object: the two early returns and a failed
\* is_valid(raise_exception=True) answer 400 and write nothing; otherwise
\* the rows are replaced
SplitOutcome(req) ==
    IF tx.type # "expense" \/ tx.group = "none" \/ ~SplitRequestValid(req)
    THEN [tbl |-> splits, resp |-> "400"]
    ELSE LET result == SplitResult(req.equal_split, req.splits)
         IN  [tbl |-> result.tbl, resp |-> IF result.ok THEN "201" ELSE "500"]

\* POST /transactions/{id}/split/ served without interference
Split(actor, req) ==
    /\ TxVisible(actor)
    /\ splits' = SplitOutcome(req).tbl
    /\ split_resp' = SplitOutcome(req).resp
    /\ UNCHANGED <<groupVars, inflight, categories, tx, splitting, auxVars>>

\* an expense of the group "voyage" created by a member, split, and
\* members leaving the group
NextSplit ==
    \/ SeedData
    \/ \E u \in Users, a \in 1..MaxAmount :
          TransactionCreate(u, "Alimentation", "voyage", a, "expense")
    \/ \E actor \in Users, req \in SplitRequests : Split(actor, req)
    \/ \E u \in Users : LeaveGroup(u, "voyage")

SpecSplit == Init /\ [][NextSplit]_vars

\* ------------------------------------------------------------------------
\* split() as the server runs it: autocommit, no lock on the transaction
\* row, so every query of a request is a step other requests interleave with
\* ------------------------------------------------------------------------
\* the orders in which the rows of tbl can be written
RowOrders(tbl) ==
    LET holders == {u \in Users : tbl[u] # Absent}
        n == Cardinality(holders)
    IN  {[i \in 1..n |-> [user |-> f[i], amount |-> tbl[f[i]]]] :
            f \in {h \in [1..n -> holders] :
                     \A i, j \in 1..n : i # j => h[i] # h[j]}}

\* get_object, the two tests and serializer.is_valid()
SplitBegin(p, actor, req) ==
    /\ splitting[p].pc = "idle"
    /\ CanSplit(actor, req)
    /\ splitting' = [splitting EXCEPT ![p] =
            [pc |-> "validated", equal_split |-> req.equal_split,
             splits |-> IF req.equal_split THEN <<>> ELSE req.splits,
             todo |-> <<>>]]
    /\ UNCHANGED <<groupVars, inflight, categories, tx, splits, split_resp, auxVars>>

\* transaction.splits.all().delete(), then the rows to write: the active
\* members in the order the query returns them, or the validated list
SplitDeleteOld(p) ==
    /\ splitting[p].pc = "validated"
    /\ splits' = NoSplits
    /\ \E order \in (IF splitting[p].equal_split
                     THEN RowOrders(EqualRows(tx.group))
                     ELSE {splitting[p].splits}) :
          splitting' = [splitting EXCEPT ![p].pc = "inserting", ![p].todo = order]
    /\ UNCHANGED <<groupVars, inflight, categories, tx, split_resp, auxVars>>

\* one ExpenseSplit.objects.create
SplitInsert(p) ==
    /\ splitting[p].pc = "inserting"
    /\ splitting[p].todo # <<>>
    /\ LET row == Head(splitting[p].todo) IN
          IF splits[row.user] # Absent
          THEN /\ splitting' = [splitting EXCEPT ![p].pc = "failed"]
               /\ split_resp' = "500"
               /\ UNCHANGED splits
          ELSE /\ splits' = [splits EXCEPT ![row.user] = row.amount]
               /\ splitting' = [splitting EXCEPT ![p].todo = Tail(@)]
               /\ UNCHANGED split_resp
    /\ UNCHANGED <<groupVars, inflight, categories, tx, auxVars>>

\* the 201 response
SplitRespond(p) ==
    /\ splitting[p].pc = "inserting"
    /\ splitting[p].todo = <<>>
    /\ splitting' = [splitting EXCEPT ![p].pc = "done"]
    /\ split_resp' = "201"
    /\ UNCHANGED <<groupVars, inflight, categories, tx, splits, auxVars>>

\* seed_data is run before the server records the expense
SeedBeforeRequests == ~tx.exists /\ SeedData

\* the members of "voyage" that seed_data inserts
SeededVoyageMembers ==
    {u \in Users : SeedExtraMembers("voyage")[u].status = "active"}

\* the request bodies that name these members only
MemberSplitRequests ==
    {req \in SplitRequests :
        \A i \in 1..Len(req.splits) : req.splits[i].user \in SeededVoyageMembers}

\* one expense of the group "voyage" and two requests that share it among
\* members of the group
NextSplitRace ==
    \/ SeedBeforeRequests
    \/ \E a \in 1..MaxAmount :
          TransactionCreate("alice", "Alimentation", "voyage", a, "expense")
    \/ \E p \in Procs, actor \in Users, req \in MemberSplitRequests :
          SplitBegin(p, actor, req)
    \/ \E p \in Procs : SplitDeleteOld(p)
    \/ \E p \in Procs : SplitInsert(p)
    \/ \E p \in Procs : SplitRespond(p)

SpecSplitRace == Init /\ [][NextSplitRace]_vars

\* ------------------------------------------------------------------------
\* Balance of a group (GroupBalanceView, Group.get_balance)
\* ------------------------------------------------------------------------
\* Group.get_balance: income and expense of the non-deleted transactions of
\* the group
get_balance(g) ==
    LET counted == tx.exists /\ tx.group = g /\ ~tx.is_deleted
        income == IF counted /\ tx.type = "income" THEN tx.amount ELSE 0
        expense == IF counted /\ tx.type = "expense" THEN tx.amount ELSE 0
    IN  [income |-> income, expense |-> expense, balance |-> income - expense]

\* balance computed with the two totals exchanged
MemberBalance_OwedMinusPaid(g, u) ==
    LET created_transactions ==
            IF tx.exists /\ tx.group = g /\ tx.user = u /\ ~tx.is_deleted
               /\ tx.type = "expense"
            THEN tx.amount ELSE 0
        owed_splits ==
            IF tx.exists /\ tx.group = g /\ splits[u] # Absent
            THEN splits[u] ELSE 0
    IN  [listed |-> TRUE, total_paid |-> created_transactions,
         total_owed |-> owed_splits,
         balance |-> owed_splits - created_transactions]

\* one element of member_balances: the expenses the member recorded in the
\* group (not deleted), the member's split rows on transactions of the
\* group, and their difference
MemberBalance(g, u) ==
    LET created_transactions ==
            IF tx.exists /\ tx.group = g /\ tx.user = u /\ ~tx.is_deleted
               /\ tx.type = "expense"
            THEN tx.amount ELSE 0
        owed_splits ==
            IF tx.exists /\ tx.group = g /\ splits[u] # Absent
            THEN splits[u] ELSE 0
    IN  [listed |-> TRUE, total_paid |-> created_transactions,
         total_owed |-> owed_splits,
         balance |-> created_transactions - owed_splits]

\* GET /groups/{id}/balance/ : GroupBalanceView.get
GroupBalanceGet(actor, g) ==
    /\ groups[g].exists /\ groups[g].is_active
    /\ is_member(g, actor)
    /\ balance_report' =
          [group |-> g,
           summary |-> get_balance(g),
           members |-> [u \in Users |->
                          IF is_member(g, u) THEN MemberBalance(g, u) ELSE NoLine]]
    /\ UNCHANGED <<groupVars, inflight, categories, tx, splits, split_resp,
                   splitting, reminderVars, budget_status, extVars>>

\* the request bodies with a single share
SingleShareRequests == {req \in SplitRequests : Len(req.splits) = 1}

\* an expense of the group "voyage", its split, bob joining the group, and
\* the balance asked for
NextBalance ==
    \/ SeedData
    \/ \E a \in Users : InviteToGroup(a, "voyage", "bob")
    \/ AcceptInvitation("bob", "voyage")
    \/ \E u \in Users, a \in {MaxAmount, ThreeHundred} :
          TransactionCreate(u, "Alimentation", "voyage", a, "expense")
    \/ \E actor \in Users, req \in SingleShareRequests : Split(actor, req)
    \/ \E u \in Users : TransactionDestroy(u)
    \/ \E actor \in Users : GroupBalanceGet(actor, "voyage")

SpecBalance == Init /\ [][NextBalance]_vars

\* ------------------------------------------------------------------------
\* Reminders (reminders/models.py, reminders/serializers.py,
\* reminders/views.py).  A date-time is [y, m, d, h]: a calendar day and the
\* hour of the day.
\* ------------------------------------------------------------------------
\* None, for a date-time
NoDate == [y |-> 0, m |-> 0, d |-> 0, h |-> 0]

\* recurring_config without the key end_date (or with null)
NoEnd == [y |-> 0, m |-> 0, d |-> 0]

\* recurring_config = None
NoConfig == [frequency |-> "none", interval |-> 0, end_date |-> NoEnd,
             day_of_month |-> 0]

\* completed_at = None
NullTime == -1

Frequencies == {"daily", "weekly", "monthly", "yearly"}

\* calendar.isleap
IsLeap(y) == (y % 4 = 0 /\ y % 100 # 0) \/ y % 400 = 0

\* calendar.monthrange(y, m)[1]
DaysInMonth(y, m) ==
    IF m = 2 THEN (IF IsLeap(y) THEN 29 ELSE 28)
    ELSE IF m \in {4, 6, 9, 11} THEN 30 ELSE 31

\* dt + relativedelta(months=k): the month moves, the day is cut back to the
\* last day of the new month when it does not exist there
AddMonths(dt, k) ==
    LET total == dt.y * 12 + (dt.m - 1) + k
        ny == total \div 12
        nm == (total % 12) + 1
        last == DaysInMonth(ny, nm)
    IN  [y |-> ny, m |-> nm, d |-> IF dt.d > last THEN last ELSE dt.d, h |-> dt.h]

\* dt + relativedelta(days=1)
NextDay(dt) ==
    IF dt.d < DaysInMonth(dt.y, dt.m) THEN [dt EXCEPT !.d = dt.d + 1]
    ELSE IF dt.m < 12 THEN [dt EXCEPT !.m = dt.m + 1, !.d = 1]
    ELSE [dt EXCEPT !.y = dt.y + 1, !.m = 1, !.d = 1]

\* dt + relativedelta(days=n)
RECURSIVE AddDays(_, _)
AddDays(dt, n) == IF n = 0 THEN dt ELSE AddDays(NextDay(dt), n - 1)

\* get_next_occurrence without its day_of_month step: the day stays the one
\* relativedelta gave
ReplaceDay_Skipped(dt, day_of_month) == dt

\* next_date.replace(day=day_of_month), and on ValueError the last day of
\* the month
ReplaceDay(dt, day_of_month) ==
    IF day_of_month <= DaysInMonth(dt.y, dt.m)
    THEN [dt EXCEPT !.d = day_of_month]
    ELSE [dt EXCEPT !.d = DaysInMonth(dt.y, dt.m)]

\* a > b for two date-times
After(a, b) ==
    \/ a.y > b.y
    \/ a.y = b.y /\ a.m > b.m
    \/ a.y = b.y /\ a.m = b.m /\ a.d > b.d
    \/ a.y = b.y /\ a.m = b.m /\ a.d = b.d /\ a.h > b.h

\* datetime.fromisoformat(end_date) for a date string: midnight of that day
EndAsDatetime(end_date) ==
    [y |-> end_date.y, m |-> end_date.m, d |-> end_date.d, h |-> 0]

\* Reminder.get_next_occurrence
get_next_occurrence(r) ==
    IF ~r.is_recurring \/ r.recurring_config = NoConfig THEN NoDate
    ELSE
      LET config == r.recurring_config
          frequency == config.frequency
          interval == config.interval
          end_date == config.end_date
          current_date == r.reminder_date
          next_date ==
             IF frequency = "daily" THEN AddDays(current_date, interval)
             ELSE IF frequency = "weekly" THEN AddDays(current_date, 7 * interval)
             ELSE IF frequency = "monthly" THEN
                  LET moved == AddMonths(current_date, interval)
                  IN  IF config.day_of_month # 0
                      THEN ReplaceDay(moved, config.day_of_month)
                      ELSE moved
             ELSE IF frequency = "yearly" THEN AddMonths(current_date, 12 * interval)
             ELSE NoDate
      IN  IF next_date = NoDate THEN NoDate
          ELSE IF end_date # NoEnd /\ After(next_date, EndAsDatetime(end_date))
          THEN NoDate
          ELSE next_date

\* create_next_occurrence copying the whole instance it is called on, its
\* completion included
NextOccurrenceRow_CopiesStatus(r, id, next_date) ==
    [user |-> r.user, group |-> r.group, title |-> r.title,
     description |-> r.description, reminder_type |-> r.reminder_type,
     reminder_date |-> next_date, amount |-> r.amount,
     is_recurring |-> r.is_recurring, recurring_config |-> r.recurring_config,
     is_completed |-> TRUE, completed_at |-> clock,
     notification_sent |-> FALSE, origin |-> id]

\* the row Reminder.objects.create(...) of create_next_occurrence inserts;
\* the fields it does not pass take the defaults of the model.  origin is
\* not a column: it records which row the occurrence was created from.
NextOccurrenceRow(r, id, next_date) ==
    [user |-> r.user, group |-> r.group, title |-> r.title,
     description |-> r.description, reminder_type |-> r.reminder_type,
     reminder_date |-> next_date, amount |-> r.amount,
     is_recurring |-> r.is_recurring, recurring_config |-> r.recurring_config,
     is_completed |-> FALSE, completed_at |-> NullTime,
     notification_sent |-> FALSE, origin |-> id]

\* Reminder.create_next_occurrence on row id, held in memory as r
create_next_occurrence(tbl, id, r) ==
    LET next_date == get_next_occurrence(r)
    IN  IF next_date = NoDate THEN tbl
        ELSE Append(tbl, NextOccurrenceRow(r, id, next_date))

\* Reminder.mark_as_completed: save(update_fields=[is_completed,
\* completed_at, updated_at])
mark_as_completed(tbl, id) ==
    [tbl EXCEPT ![id].is_completed = TRUE, ![id].completed_at = clock]

\* timezone.now() at the start of the run, as a date-time
Epoch == [y |-> 2024, m |-> 1, d |-> 1, h |-> 0]

StartDates == {[y |-> 2023, m |-> 12, d |-> 31, h |-> 9],
               [y |-> 2024, m |-> 1, d |-> 31, h |-> 0],
               [y |-> 2024, m |-> 1, d |-> 31, h |-> 9]}

EndDates == {NoEnd, [y |-> 2024, m |-> 2, d |-> 29], [y |-> 2024, m |-> 12, d |-> 31]}

\* the values of recurring_config the requests carry; day_of_month 0 stands
\* for a config without that key
RecurringConfigs ==
    [frequency : Frequencies, interval : 1..MaxInterval, end_date : EndDates,
     day_of_month : {0, 15, 31}]

\* the bodies of POST /reminders/; group "none" is a personal reminder
ReminderBodies ==
    [group : {"none", "voyage"}, title : {"Loyer"}, description : {"mensuel"},
     reminder_type : {"bill"}, reminder_date : StartDates, amount : {MaxAmount},
     is_recurring : BOOLEAN, recurring_config : RecurringConfigs \cup {NoConfig}]

\* ReminderCreateSerializer: validate_reminder_date, validate_group, validate
ReminderBodyValid(u, body) ==
    /\ ~After(Epoch, body.reminder_date)
    /\ body.group # "none" => is_member(body.group, u)
    /\ body.is_recurring =>
          /\ body.recurring_config # NoConfig
          /\ body.recurring_config.frequency \in Frequencies

\* ReminderViewSet.create: an invalid body is answered 400 and writes
\* nothing.  One reminder is followed from its creation, with the
\* occurrences that completing it creates.
ReminderCreate(u, body) ==
    /\ Len(reminders) = 0
    /\ ReminderBodyValid(u, body)
    /\ reminders' = <<[user |-> u, group |-> body.group, title |-> body.title,
                       description |-> body.description,
                       reminder_type |-> body.reminder_type,
                       reminder_date |-> body.reminder_date,
                       amount |-> body.amount,
                       is_recurring |-> body.is_recurring,
                       recurring_config |-> body.recurring_config,
                       is_completed |-> FALSE, completed_at |-> NullTime,
                       notification_sent |-> FALSE, origin |-> 0]>>
    /\ UNCHANGED <<groupVars, inflight, categories, tx, splits, split_resp,
                   splitting, balance_report, clock, completing, complete_resp,
                   budget_status, extVars>>

\* ReminderViewSet.get_object: the reminders user u can address
ReminderVisible(u, id) ==
    /\ id \in 1..Len(reminders)
    /\ \/ reminders[id].user = u /\ reminders[id].group = "none"
       \/ reminders[id].group # "none" /\ is_member(reminders[id].group, u)

\* CompleteReminderSerializer.save on the instance r read from row id
CompleteSave(id, r, create_next) ==
    LET marked == mark_as_completed(reminders, id)
    IN  IF r.is_recurring /\ create_next
        THEN create_next_occurrence(marked, id, r)
        ELSE marked

\* complete without its is_completed test
ReminderComplete_NoCompletedTest(u, id, create_next) ==
    /\ ReminderVisible(u, id)
    /\ Len(CompleteSave(id, reminders[id], create_next)) <= MaxReminders
    /\ reminders' = CompleteSave(id, reminders[id], create_next)
    /\ complete_resp' = "200"
    /\ UNCHANGED <<groupVars, inflight, categories, tx, splits, split_resp,
                   splitting, balance_report, clock, completing, budget_status,
                   extVars>>

\* ReminderViewSet.complete, served alone
ReminderComplete(u, id, create_next) ==
    /\ ReminderVisible(u, id)
    /\ IF reminders[id].is_completed
       THEN /\ complete_resp' = "400"
            /\ UNCHANGED reminders
       ELSE /\ Len(CompleteSave(id, reminders[id], create_next)) <= MaxReminders
            /\ reminders' = CompleteSave(id, reminders[id], create_next)
            /\ complete_resp' = "200"
    /\ UNCHANGED <<groupVars, inflight, categories, tx, splits, split_resp,
                   splitting, balance_report, clock, completing, budget_status,
                   extVars>>

\* time passes between two requests
Tick ==
    /\ clock < MaxClock
    /\ clock' = clock + 1
    /\ UNCHANGED <<groupVars, inflight, categories, tx, splits, split_resp,
                   splitting, balance_report, reminders, completing,
                   complete_resp, budget_status, extVars>>

NextReminder ==
    \/ SeedData
    \/ \E u \in {"alice", "bob"}, body \in ReminderBodies : ReminderCreate(u, body)
    \/ \E u \in Users, id \in 1..MaxReminders, create_next \in BOOLEAN :
          ReminderComplete(u, id, create_next)
    \/ Tick

SpecReminder == Init /\ [][NextReminder]_vars

\* ------------------------------------------------------------------------
\* Recurrence rules as the validation lets them in: ReminderCreateSerializer
\* .validate tests that frequency is present and known, and nothing else of
\* recurring_config (ReminderUpdateSerializer tests nothing of it), so the
\* interval of an accepted reminder can be 0.
\* ------------------------------------------------------------------------
AcceptedConfigs ==
    [frequency : Frequencies, interval : 0..MaxInterval, end_date : EndDates,
     day_of_month : {0, 31}]

\* personal recurring reminders with these rules
RecurrenceBodies ==
    [group : {"none"}, title : {"Loyer"}, description : {"mensuel"},
     reminder_type : {"bill"}, reminder_date : StartDates, amount : {MaxAmount},
     is_recurring : {TRUE}, recurring_config : AcceptedConfigs]

\* a reminder is created, then its newest occurrences are completed
NextRecurrence ==
    \/ \E body \in RecurrenceBodies : ReminderCreate("alice", body)
    \/ \E id \in 1..MaxReminders : ReminderComplete("alice", id, TRUE)
    \/ Tick

SpecRecurrence == Init /\ [][NextRecurrence]_vars

\* ------------------------------------------------------------------------
\* Two complete requests served at the same time: complete runs in
\* autocommit, without a transaction or a row lock, so each statement of a
\* request is a step of its own.
\* ------------------------------------------------------------------------
\* get_object and the is_completed test of ReminderViewSet.complete
CompleteBegin(p, u, id, create_next) ==
    /\ completing[p].pc = "idle"
    /\ ReminderVisible(u, id)
    /\ IF reminders[id].is_completed
       THEN /\ complete_resp' = "400"
            /\ UNCHANGED completing
       ELSE /\ completing' = [completing EXCEPT ![p] =
                  [pc |-> "mark", id |-> id, create_next |-> create_next,
                   r |-> reminders[id]]]
            /\ UNCHANGED complete_resp
    /\ UNCHANGED <<groupVars, inflight, categories, tx, splits, split_resp,
                   splitting, balance_report, reminders, clock, budget_status,
                   extVars>>

\* reminder.mark_as_completed() of CompleteReminderSerializer.save
CompleteMark(p) ==
    /\ completing[p].pc = "mark"
    /\ reminders' = mark_as_completed(reminders, completing[p].id)
    /\ IF completing[p].r.is_recurring /\ completing[p].create_next
       THEN /\ completing' = [completing EXCEPT ![p].pc = "next"]
            /\ UNCHANGED complete_resp
       ELSE /\ completing' = [completing EXCEPT ![p] = NotCompleting]
            /\ complete_resp' = "200"
    /\ UNCHANGED <<groupVars, inflight, categories, tx, splits, split_resp,
                   splitting, balance_report, clock, budget_status, extVars>>

\* reminder.create_next_occurrence() of CompleteReminderSerializer.save,
\* then the response
CompleteNext(p) ==
    /\ completing[p].pc = "next"
    /\ Len(create_next_occurrence(reminders, completing[p].id, completing[p].r))
          <= MaxReminders
    /\ reminders' = create_next_occurrence(reminders, completing[p].id,
                                           completing[p].r)
    /\ completing' = [completing EXCEPT ![p] = NotCompleting]
    /\ complete_resp' = "200"
    /\ UNCHANGED <<groupVars, inflight, categories, tx, splits, split_resp,
                   splitting, balance_report, clock, budget_status, extVars>>

\* the bodies of the reminder the two requests complete: personal
\* reminders, recurring every month without an end date or not recurring
RaceBodies ==
    {body \in ReminderBodies :
        /\ body.group = "none"
        /\ \/ body.recurring_config = NoConfig
           \/ /\ body.recurring_config.frequency = "monthly"
              /\ body.recurring_config.end_date = NoEnd}

NextReminderRace ==
    \/ \E body \in RaceBodies : ReminderCreate("alice", body)
    \/ \E p \in Procs, id \in 1..MaxReminders, create_next \in BOOLEAN :
          CompleteBegin(p, "alice", id, create_next)
    \/ \E p \in Procs : CompleteMark(p)
    \/ \E p \in Procs : CompleteNext(p)
    \/ Tick

SpecReminderRace == Init /\ [][NextReminderRace]_vars

\* ------------------------------------------------------------------------
\* Category budget (finances/models.py, finances/serializers.py).  Amounts
\* are in hundredths, the reported percentage in hundredths of a percent.
\* ------------------------------------------------------------------------
\* no budget, 0.00, 200.00 and 300.00
Budgets == {NoBudget, 0, 20000, ThreeHundred}

Thresholds == {0, 80, 100}

ExpenseAmounts == {1, 6001, 23999}

\* round(float(percentage), 2) for percentage = spent / budget * 100.  When
\* the quotient is exactly halfway between two hundredths, the result
\* depends on the binary float nearest to it: tie_up says it rounds upwards.
RoundedPercentage(spent, budget, tie_up) ==
    LET q == (spent * 10000) \div budget
        rest == (spent * 10000) % budget
    IN  IF 2 * rest > budget THEN q + 1
        ELSE IF 2 * rest < budget THEN q
        ELSE IF tie_up THEN q + 1 ELSE q

\* Category.get_budget_status for a category with these budget fields and
\* this get_monthly_spent.  "not self.budget" holds for None and for 0; the
\* comparison percentage >= budget_alert_threshold is made on the quotient
\* before it is rounded.
get_budget_status(budget, threshold, spent, tie_up) ==
    IF budget = NoBudget \/ budget = 0 THEN NoStatus
    ELSE [returned |-> "dict",
          budget |-> budget,
          spent |-> spent,
          remaining |-> budget - spent,
          percentage |-> IF budget > 0
                         THEN RoundedPercentage(spent, budget, tie_up) ELSE 0,
          is_over_budget |-> spent > budget,
          is_alert |-> IF budget > 0 THEN spent * 100 >= threshold * budget
                       ELSE 0 >= threshold,
          alert_threshold |-> threshold]

\* CategoryCreateSerializer / CategoryUpdateSerializer: validate_budget
\* accepts None and every value >= 0, validate_budget_alert_threshold 0..100
CategorySetBudget(budget, threshold) ==
    /\ budget = NoBudget \/ budget >= 0
    /\ threshold >= 0 /\ threshold <= 100
    /\ budget_status' = [budget_status EXCEPT !.budget = budget,
                                              !.threshold = threshold]
    /\ UNCHANGED <<groupVars, inflight, categories, tx, splits, split_resp,
                   splitting, balance_report, reminderVars, extVars>>

\* the alert _check_category_budget decides on: percentage is the rounded
\* percentage of the status, the threshold is
\* float(category.budget_alert_threshold or 80)
AlertType(percentage, threshold) ==
    IF percentage >= 10000 THEN "over_budget"
    ELSE IF percentage >= 100 * (IF threshold = 0 THEN 80 ELSE threshold)
    THEN "warning"
    ELSE "none"

\* an alert of this type was sent less than 24 hours ago; two instants of
\* the clock are a day apart
AlertedRecently(bs, alert_type) ==
    /\ bs.recent_alerts[alert_type] # -1
    /\ clock - bs.recent_alerts[alert_type] < 1

\* BudgetAlertService._check_category_budget; sent_ok is what
\* EmailService.send_budget_alert answers
check_category_budget(bs, tie_up, sent_ok) ==
    LET status == get_budget_status(bs.budget, bs.threshold, bs.spent, tie_up)
        alert_type == AlertType(status.percentage, bs.threshold)
    IN  IF status = NoStatus \/ alert_type = "none" THEN bs
        ELSE IF AlertedRecently(bs, alert_type) THEN bs
        ELSE IF sent_ok
        THEN [bs EXCEPT !.alerts = @ + 1, !.recent_alerts[alert_type] = clock]
        ELSE bs

\* BudgetAlertService.check_and_send_alerts(user, category): with_category
\* is false when the caller passes no category
check_and_send_alerts(bs, with_category, tie_up, sent_ok) ==
    IF ~bs.email_budget_alerts THEN bs
    ELSE IF with_category /\ bs.budget # NoBudget /\ bs.budget > 0
    THEN check_category_budget(bs, tie_up, sent_ok)
    ELSE bs

\* TransactionViewSet.perform_create for one more expense of the month in
\* the category: get_monthly_spent grows, then the budget of the category
\* is checked
ExpenseRecorded(amount, tie_up, sent_ok) ==
    /\ budget_status.expenses < MaxExpenses
    /\ budget_status' =
          check_and_send_alerts(
             [budget_status EXCEPT !.spent = budget_status.spent + amount,
                                   !.expenses = budget_status.expenses + 1],
             TRUE, tie_up, sent_ok)
    /\ UNCHANGED <<groupVars, inflight, categories, tx, splits, split_resp,
                   splitting, balance_report, reminderVars, extVars>>

\* the user switches the budget alerts on or off
SetBudgetAlerts(enabled) ==
    /\ budget_status' = [budget_status EXCEPT !.email_budget_alerts = enabled]
    /\ UNCHANGED <<groupVars, inflight, categories, tx, splits, split_resp,
                   splitting, balance_report, reminderVars, extVars>>

\* the scheduled task check_all_budgets: for every active user,
\* BudgetAlertService.check_and_send_alerts(user), without a category
CheckAllBudgets(tie_up, sent_ok) ==
    /\ budget_status' =
          [check_and_send_alerts(budget_status, FALSE, tie_up, sent_ok)
              EXCEPT !.task = [ran |-> TRUE, at |-> clock,
                               users_checked |-> 1, errors |-> 0]]
    /\ UNCHANGED <<groupVars, inflight, categories, tx, splits, split_resp,
                   splitting, balance_report, reminderVars, extVars>>

\* CategorySerializer.get_budget_status: the status is computed and returned
GetBudgetStatus(tie_up) ==
    /\ budget_status' = [budget_status EXCEPT
                            !.called = TRUE,
                            !.status = get_budget_status(budget_status.budget,
                                                         budget_status.threshold,
                                                         budget_status.spent,
                                                         tie_up)]
    /\ UNCHANGED <<groupVars, inflight, categories, tx, splits, split_resp,
                   splitting, balance_report, reminderVars, extVars>>

\* the budget fields, the expenses and the status, with a mail service that
\* is down
NextBudget ==
    \/ \E budget \in Budgets, threshold \in Thresholds :
          CategorySetBudget(budget, threshold)
    \/ \E amount \in ExpenseAmounts, tie_up \in BOOLEAN :
          ExpenseRecorded(amount, tie_up, FALSE)
    \/ \E tie_up \in BOOLEAN : GetBudgetStatus(tie_up)

SpecBudget == Init /\ [][NextBudget]_vars

\* the budget alerts: a budget of 300.00 with threshold 80 or no budget,
\* expenses that reach the threshold and then exceed the budget, the
\* preference switched, the scheduled task, days passing
NextAlerts ==
    \/ \E budget \in {NoBudget, ThreeHundred} : CategorySetBudget(budget, 80)
    \/ \E amount \in {6001, 23999}, sent_ok \in BOOLEAN :
          ExpenseRecorded(amount, TRUE, sent_ok)
    \/ \E enabled \in BOOLEAN : SetBudgetAlerts(enabled)
    \/ \E sent_ok \in BOOLEAN : CheckAllBudgets(TRUE, sent_ok)
    \/ Tick

SpecAlerts == Init /\ [][NextAlerts]_vars

\* ------------------------------------------------------------------------
\* Registration by email code (accounts/models.py,
\* accounts/views_verification.py).  One email address is followed, with the
\* purpose registration.  Two instants of the clock are a day apart, and
\* what happens at one instant happens within a minute: a code, valid for
\* OTP_VALIDITY_MINUTES, is expired at every later instant.
\* ------------------------------------------------------------------------
\* the values EmailVerificationCode.generate_code can draw
OtpValues == {"111111", "222222"}

\* max_attempts as create_for_email sets it
OTP_MAX_ATTEMPTS == 5

\* EmailVerificationCode.is_expired: timezone.now() > expires_at
is_expired(row) == clock > row.expires_at

\* EmailVerificationCode.remaining_attempts
remaining_attempts(row) ==
    IF row.max_attempts - row.attempts > 0
    THEN row.max_attempts - row.attempts ELSE 0

\* EmailVerificationCode.is_valid
is_valid(row) ==
    /\ ~row.is_used
    /\ ~(row.attempts >= row.max_attempts)
    /\ ~is_expired(row)

\* verify without its is_valid test
verify_NoValidTest(row, code) ==
    IF row.code = code
    THEN [ok |-> TRUE,
          row |-> [row EXCEPT !.attempts = @ + 1, !.is_used = TRUE]]
    ELSE [ok |-> FALSE, row |-> [row EXCEPT !.attempts = @ + 1]]

\* EmailVerificationCode.verify: what it returns and the row it leaves
verify(row, code) ==
    IF ~is_valid(row) THEN [ok |-> FALSE, row |-> row]
    ELSE IF row.code = code
    THEN [ok |-> TRUE,
          row |-> [row EXCEPT !.attempts = @ + 1, !.is_used = TRUE]]
    ELSE [ok |-> FALSE, row |-> [row EXCEPT !.attempts = @ + 1]]

\* filter(email, purpose, is_used=False).order_by('-created_at').first():
\* the index of the newest unused row, 0 when there is none
NewestUnused ==
    LET unused == {i \in 1..Len(codes) : ~codes[i].is_used}
    IN  IF unused = {} THEN 0
        ELSE CHOOSE i \in unused : \A j \in unused : j <= i

\* EmailVerificationCode.create_for_email: the unused rows become used, a
\* row with a fresh code is added
create_for_email(code) ==
    Append([i \in 1..Len(codes) |-> [codes[i] EXCEPT !.is_used = TRUE]],
           [code |-> code, attempts |-> 0, max_attempts |-> OTP_MAX_ATTEMPTS,
            is_used |-> FALSE, created_at |-> clock, expires_at |-> clock])

\* SendVerificationCodeView.post for purpose registration: 400 when an
\* account exists, 429 when an unused code is less than a minute old;
\* otherwise the code is created and mailed (500 when the mail fails, the
\* row stays)
SendVerificationCode(code, email_sent) ==
    /\ Len(codes) < MaxCodes
    /\ IF user_exists
       THEN /\ auth_resp' = [view |-> "send", status |-> "400",
                            reason |-> "account_exists"]
            /\ UNCHANGED codes
       ELSE IF \E i \in 1..Len(codes) :
                  ~codes[i].is_used /\ codes[i].created_at = clock
       THEN /\ auth_resp' = [view |-> "send", status |-> "429",
                            reason |-> "too_many"]
            /\ UNCHANGED codes
       ELSE /\ codes' = create_for_email(code)
            /\ auth_resp' = [view |-> "send",
                            status |-> IF email_sent THEN "200" ELSE "500",
                            reason |-> "created"]
    /\ UNCHANGED <<groupVars, inflight, categories, tx, splits, split_resp,
                   splitting, balance_report, reminderVars, budget_status,
                   user_exists, paymentVars, crowd>>

\* VerifyCodeView.post with purpose registration
VerifyCode(code) ==
    /\ LET i == NewestUnused IN
          IF i = 0
          THEN /\ auth_resp' = [view |-> "verify", status |-> "400",
                               reason |-> "no_code"]
               /\ UNCHANGED codes
          ELSE IF is_expired(codes[i])
          THEN /\ auth_resp' = [view |-> "verify", status |-> "400",
                               reason |-> "expired"]
               /\ UNCHANGED codes
          ELSE IF remaining_attempts(codes[i]) <= 0
          THEN /\ auth_resp' = [view |-> "verify", status |-> "400",
                               reason |-> "max_attempts"]
               /\ UNCHANGED codes
          ELSE /\ codes' = [codes EXCEPT ![i] = verify(codes[i], code).row]
               /\ auth_resp' =
                     IF verify(codes[i], code).ok
                     THEN [view |-> "verify", status |-> "200",
                           reason |-> "can_create_account"]
                     ELSE [view |-> "verify", status |-> "400",
                           reason |-> "incorrect"]
    /\ UNCHANGED <<groupVars, inflight, categories, tx, splits, split_resp,
                   splitting, balance_report, reminderVars, budget_status,
                   user_exists, paymentVars, crowd>>

\* RegisterWithCodeView.post
RegisterWithCode(code) ==
    /\ LET i == NewestUnused IN
          IF user_exists
          THEN /\ auth_resp' = [view |-> "register", status |-> "400",
                               reason |-> "account_exists"]
               /\ UNCHANGED <<codes, user_exists>>
          ELSE IF i = 0
          THEN /\ auth_resp' = [view |-> "register", status |-> "400",
                               reason |-> "no_code"]
               /\ UNCHANGED <<codes, user_exists>>
          ELSE /\ codes' = [codes EXCEPT ![i] = verify(codes[i], code).row]
               /\ IF verify(codes[i], code).ok
                  THEN /\ user_exists' = TRUE
                       /\ auth_resp' = [view |-> "register", status |-> "201",
                                       reason |-> "created"]
                  ELSE /\ UNCHANGED user_exists
                       /\ auth_resp' = [view |-> "register", status |-> "400",
                                       reason |-> "incorrect_or_expired"]
    /\ UNCHANGED <<groupVars, inflight, categories, tx, splits, split_resp,
                   splitting, balance_report, reminderVars, budget_status,
                   paymentVars, crowd>>

NextRegistration ==
    \/ \E code \in OtpValues, email_sent \in BOOLEAN :
          SendVerificationCode(code, email_sent)
    \/ \E code \in OtpValues : VerifyCode(code)
    \/ \E code \in OtpValues : RegisterWithCode(code)
    \/ Tick

SpecRegistration == Init /\ [][NextRegistration]_vars

\* ------------------------------------------------------------------------
\* Deposits (payments/views.py, payments/models.py, payments/services).
\* One deposit of one user is followed; the user's wallet exists
\* (payments/signals.py creates it with the account).
\* ------------------------------------------------------------------------
\* what process_webhook can map the provider's status to (mtn_momo)
WebhookStatuses == {"completed", "failed", "processing", "unknown"}

\* what check_status answers: unknown when the provider is not configured,
\* pending otherwise
PollStatuses == {"unknown", "pending"}

\* Wallet.credit for the followed payment
credit(w, amount) ==
    [balance |-> w.balance + amount, credits |-> w.credits + 1]

\* DepositView.post: the row is created, then takes the status of
\* initiate_deposit, or failed
Deposit(amount, success) ==
    /\ ~payment.exists
    /\ payment' = [exists |-> TRUE, type |-> "deposit", amount |-> amount,
                   status |-> IF success THEN "pending" ELSE "failed"]
    /\ UNCHANGED <<groupVars, inflight, categories, tx, splits, split_resp,
                   splitting, balance_report, reminderVars, budget_status,
                   accountVars, wallet, webhooks, crowd>>

\* PaymentViewSet.status
PaymentStatus(result) ==
    /\ payment.exists
    /\ IF payment.status \in {"completed", "failed", "cancelled"}
       THEN UNCHANGED payment
       ELSE IF result # payment.status
       THEN payment' = [payment EXCEPT !.status = result]
       ELSE UNCHANGED payment
    /\ UNCHANGED <<groupVars, inflight, categories, tx, splits, split_resp,
                   splitting, balance_report, reminderVars, budget_status,
                   accountVars, wallet, webhooks, crowd>>

\* WebhookView.post for a known provider: the webhook is logged; when its
\* reference is that of the payment, the payment takes the status, and a
\* completed deposit credits the wallet
Webhook(status, known_reference) ==
    /\ webhooks < MaxWebhooks
    /\ webhooks' = webhooks + 1
    /\ IF known_reference /\ payment.exists
       THEN /\ payment' = [payment EXCEPT !.status = status]
            /\ IF status = "completed" /\ payment.type = "deposit"
               THEN wallet' = credit(wallet, payment.amount)
               ELSE UNCHANGED wallet
       ELSE UNCHANGED <<payment, wallet>>
    /\ UNCHANGED <<groupVars, inflight, categories, tx, splits, split_resp,
                   splitting, balance_report, reminderVars, budget_status,
                   accountVars, crowd>>

NextPayments ==
    \/ \E amount \in 1..MaxAmount, success \in BOOLEAN : Deposit(amount, success)
    \/ \E result \in PollStatuses : PaymentStatus(result)
    \/ \E status \in WebhookStatuses, known \in BOOLEAN : Webhook(status, known)

SpecPayments == Init /\ [][NextPayments]_vars

\* ------------------------------------------------------------------------
\* The member limit (InviteToGroupSerializer.validate_email,
\* GroupInvitation.accept) on a group large enough to reach it.  The group is
\* followed by its counts: it starts with its owner (Group.save), every
\* invitation is for an account that is not a member and has no pending
\* invitation, sent by an administrator.
\* ------------------------------------------------------------------------
\* POST /groups/{id}/invite/ : refused when members_count has reached
\* MAX_GROUP_MEMBERS
InviteToGroup_Counted ==
    /\ crowd.pending < MaxPending
    /\ ~(crowd.active >= MAX_GROUP_MEMBERS)
    /\ crowd' = [crowd EXCEPT !.pending = @ + 1]
    /\ UNCHANGED <<groupVars, inflight, categories, tx, splits, split_resp,
                   splitting, balance_report, reminderVars, budget_status,
                   accountVars, paymentVars>>

\* POST /groups/invitations/{token}/ : GroupInvitation.accept creates the
\* active membership and marks the invitation accepted
AcceptInvitation_Counted ==
    /\ crowd.pending > 0
    /\ crowd' = [active |-> crowd.active + 1, pending |-> crowd.pending - 1]
    /\ UNCHANGED <<groupVars, inflight, categories, tx, splits, split_resp,
                   splitting, balance_report, reminderVars, budget_status,
                   accountVars, paymentVars>>

NextLimit ==
    \/ InviteToGroup_Counted
    \/ AcceptInvitation_Counted

SpecLimit == Init /\ [][NextLimit]_vars

\* ------------------------------------------------------------------------
\* Properties of the membership operations
\* ------------------------------------------------------------------------
ActiveGroup(g) == groups[g].exists /\ groups[g].is_active

\* C2: every active group has at least one membership with role admin and
\* status active.
C2_ActiveGroupHasAdmin ==
    \A g \in GroupIds : ActiveGroup(g) => admins(g) # {}

\* C3: in every active group the owner holds a membership with status
\* active and role admin.
C3_OwnerIsActiveAdmin ==
    \A g \in GroupIds : ActiveGroup(g) => is_admin(g, groups[g].owner)

\* t is the only active admin of g and g has other active members
SoleAdminWithOthers(g, t) ==
    /\ groups[g].exists
    /\ admins(g) = {t}
    /\ members_count(g) > 1

\* no demote, remove or leave request aimed at the sole admin is accepted,
\* whoever sends it
SoleAdminRequestsRejected ==
    \A g \in GroupIds, t \in Users :
        SoleAdminWithOthers(g, t) =>
            /\ \A actor \in Users :
                  /\ ~CanPatchRole(g, actor, t, "member")
                  /\ ~CanDeleteMember(g, actor, t)
            /\ ~CanLeave(g, t)

\* with two active admins, a demotion of one of them sent by either is
\* accepted
SecondAdminAllowsDemotion ==
    \A g \in GroupIds, a \in Users, b \in Users :
        (ActiveGroup(g) /\ a # b /\ {a, b} \subseteq admins(g)) =>
            /\ CanPatchRole(g, a, a, "member")
            /\ CanPatchRole(g, b, a, "member")

\* C8: a demote, remove or leave request that targets the sole active admin
\* of a group with other active members is rejected and no step changes
\* that admin's membership; once a second active admin exists, demoting the
\* first one is accepted.
C8_SoleAdminProtected ==
    /\ [](SoleAdminRequestsRejected /\ SecondAdminAllowsDemotion)
    /\ [][\A g \in GroupIds, t \in Users :
            SoleAdminWithOthers(g, t) => members'[g][t] = members[g][t]]_vars

\* C8 witness: in the seeded group voyage, alice was promoted and the first
\* admin diana was demoted afterwards; alice is now the sole admin with
\* another active member.
C8_Witness ==
    /\ members["voyage"]["diana"] = [role |-> "member", status |-> "active"]
    /\ SoleAdminWithOthers("voyage", "alice")

\* active admins of g in the membership table mem
AdminsIn(mem, g) ==
    {u \in Users : mem[g][u].role = "admin" /\ mem[g][u].status = "active"}

\* C6: whatever the interleaving of the checks and writes of concurrent
\* demote, remove and leave requests, a group that has an active admin and
\* more than one active member still has an active admin after each write.
C6_ConcurrentMutationsKeepAdmin ==
    [][\A g \in GroupIds :
        (admins(g) # {} /\ members_count(g) > 1) => AdminsIn(members', g) # {}]_vars

C12_LastLeaveDeactivatesGroup ==
    [][\A g \in GroupIds, u \in Users :
          (ActiveGroup(g) /\ is_member(g, u) /\ members_count(g) = 1
             /\ members'[g][u].status # "active")
          => ~groups'[g].is_active]_vars

\* ------------------------------------------------------------------------
\* Properties of the split operation
\* ------------------------------------------------------------------------
RECURSIVE SumOver(_, _)
SumOver(tbl, us) ==
    IF us = {} THEN 0
    ELSE LET u == CHOOSE x \in us : TRUE
         IN  tbl[u] + SumOver(tbl, us \ {u})

\* total of the stored split rows
SplitTotal == SumOver(splits, {u \in Users : splits[u] # Absent})

\* C1: after a successful split of a group expense, in equal or in explicit
\* mode, the stored split amounts sum exactly to the amount of the
\* transaction.
C1_SplitsSumToAmount ==
    (tx.exists /\ split_resp = "201") => SplitTotal = tx.amount

\* C4: a split request that fails after it began writing leaves the split
\* set of the transaction exactly as it was before the request.
C4_FailedSplitKeepsPriorSet ==
    [][(split_resp # "500" /\ split_resp' = "500") => splits' = splits]_vars

\* C7: every split row written by the split operation references a user who
\* is an active member of the group of the transaction at that time.
C7_SplitUsersAreActiveMembers ==
    [][\A u \in Users :
          (splits' # splits /\ splits'[u] # Absent) => is_member(tx.group, u)]_vars

\* the transaction can be the target of a split request
Splittable ==
    /\ \E actor \in Users : TxVisible(actor)
    /\ tx.type = "expense"
    /\ tx.group # "none"

\* C11: an explicit-mode split request whose shares do not sum exactly to
\* the amount of the transaction is answered 400 and writes nothing: the
\* stored splits are the ones from before the request.
C11_MismatchRejectedBeforeWrite ==
    Splittable =>
        \A req \in SplitRequests :
            (~req.equal_split /\ SumAmounts(req.splits) # tx.amount) =>
                SplitOutcome(req) = [tbl |-> splits, resp |-> "400"]

\* a rejected request has left the rows of an earlier split in place
C11_Witness ==
    /\ split_resp = "400"
    /\ SplitTotal = tx.amount
    /\ \E u \in Users : splits[u] # Absent

\* C5: when two concurrent split requests on the same transaction have both
\* ended, the split set is the one that one of the two requests produces
\* when it runs alone.
C5_ConcurrentSplitsSerialize ==
    (\A p \in Procs : splitting[p].pc \in {"done", "failed"}) =>
        \E p \in Procs :
            splits = SplitResult(splitting[p].equal_split, splitting[p].splits).tbl

\* ------------------------------------------------------------------------
\* Properties of the group balance
\* ------------------------------------------------------------------------
\* the non-deleted expenses of group g recorded by u
PaidInGroup(g, u) ==
    IF tx.exists /\ ~tx.is_deleted /\ tx.type = "expense" /\ tx.group = g
       /\ tx.user = u
    THEN tx.amount ELSE 0

\* the splits of u on the transactions of group g
OwedInGroup(g, u) ==
    IF tx.exists /\ tx.group = g /\ splits[u] # Absent THEN splits[u] ELSE 0

\* a 300.00 expense of group g, recorded by one of its three active members
\* and shared equally: 100.00 for each of them
ThreeWayExample(g) ==
    /\ tx.exists /\ ~tx.is_deleted /\ tx.type = "expense" /\ tx.group = g
    /\ tx.amount = ThreeHundred
    /\ members_count(g) = 3
    /\ is_member(g, tx.user)
    /\ \A u \in Users : splits[u] = IF is_member(g, u) THEN 10000 ELSE Absent

C10_TypeMatchesCategory ==
    (tx.exists /\ ~tx.is_deleted /\ categories[tx.category].type # "both") =>
        tx.type = categories[tx.category].type

\* ------------------------------------------------------------------------
\* Properties of reminders
\* ------------------------------------------------------------------------
\* the occurrences created from row id
Successors(id) == {j \in 1..Len(reminders) : reminders[j].origin = id}

\* C14: whatever the interleaving of the complete requests, at most one
\* next occurrence is created from one recurring reminder
C14_AtMostOneSuccessor ==
    \A id \in 1..Len(reminders) : Cardinality(Successors(id)) <= 1

\* the date-time get_next_occurrence computes for r before it looks at
\* end_date
ComputedNext(r) ==
    get_next_occurrence([r EXCEPT !.recurring_config.end_date = NoEnd])

\* the calendar day of date-time a is after the day end_date
DayAfter(a, end_date) ==
    \/ a.y > end_date.y
    \/ a.y = end_date.y /\ a.m > end_date.m
    \/ a.y = end_date.y /\ a.m = end_date.m /\ a.d > end_date.d

\* C15: get_next_occurrence returns None exactly when the reminder does not
\* recur or the computed occurrence is strictly after end_date; an
\* occurrence on the end_date day itself is returned
C15_NoneOnlyWhenDisabledOrPastEnd ==
    \A id \in 1..Len(reminders) :
        LET r == reminders[id]
        IN  get_next_occurrence(r) = NoDate <=>
               \/ ~r.is_recurring
               \/ r.recurring_config = NoConfig
               \/ /\ r.recurring_config.end_date # NoEnd
                  /\ DayAfter(ComputedNext(r), r.recurring_config.end_date)

\* months counted from year 0
MonthIndex(dt) == dt.y * 12 + (dt.m - 1)

Min(a, b) == IF a < b THEN a ELSE b

\* a monthly reminder anchored on a day of the month, with a next occurrence
AnchoredMonthly(r) ==
    /\ r.is_recurring
    /\ r.recurring_config # NoConfig
    /\ r.recurring_config.frequency = "monthly"
    /\ r.recurring_config.day_of_month # 0
    /\ get_next_occurrence(r) # NoDate

\* C18: the next occurrence of a monthly reminder anchored on day d with
\* interval k is k months after the month of reminder_date, on day
\* min(d, days in that month), so a chain anchored on 31 is on day 31 again
\* in every month that has one
C18_MonthlyAnchorClamped ==
    \A id \in 1..Len(reminders) :
        LET r == reminders[id]
            n == get_next_occurrence(r)
        IN  AnchoredMonthly(r) =>
               /\ MonthIndex(n) = MonthIndex(r.reminder_date)
                                     + r.recurring_config.interval
               /\ n.d = Min(r.recurring_config.day_of_month,
                            DaysInMonth(n.y, n.m))
               /\ n.h = r.reminder_date.h

\* an occurrence created on 29 February from a reminder anchored on 31,
\* whose own next occurrence is on 31 March
C18_Witness ==
    \E id \in 1..Len(reminders) :
        /\ reminders[id].origin # 0
        /\ AnchoredMonthly(reminders[id])
        /\ reminders[id].recurring_config.day_of_month = 31
        /\ reminders[id].reminder_date.m = 2
        /\ reminders[id].reminder_date.d = 29
        /\ get_next_occurrence(reminders[id]).m = 3
        /\ get_next_occurrence(reminders[id]).d = 31

\* C19: a complete request on a reminder that is already completed is
\* answered 400, creates no occurrence and leaves every row, is_completed
\* and completed_at included, as it was
C19_CompletedIsRejected ==
    [][\A u \in Users, id \in 1..MaxReminders, create_next \in BOOLEAN :
          (/\ ReminderVisible(u, id)
           /\ reminders[id].is_completed
           /\ ReminderComplete(u, id, create_next))
          => /\ complete_resp' = "400"
             /\ reminders' = reminders]_vars

\* a completed recurring reminder whose completion is older than the
\* present instant, after a rejected request
C19_Witness ==
    /\ complete_resp = "400"
    /\ \E id \in 1..Len(reminders) :
          /\ reminders[id].is_completed
          /\ reminders[id].is_recurring
          /\ reminders[id].completed_at < clock
          /\ get_next_occurrence(reminders[id]) # NoDate
          /\ Successors(id) = {}

\* C20: when a completion creates the next occurrence, one row is added and
\* the completed reminder keeps every field but the two mark_as_completed
\* sets; the new row copies user, group, title, description, type, amount
\* and recurrence rule, carries the next occurrence date and starts not
\* completed and not notified
C20_NextOccurrenceIsNewRow ==
    [][(Len(reminders) >= 1 /\ Len(reminders') = Len(reminders) + 1) =>
          \E id \in 1..Len(reminders) :
             LET old == reminders[id]
                 new == reminders'[Len(reminders')]
             IN  /\ \A j \in 1..Len(reminders) :
                       reminders'[j] =
                          IF j = id
                          THEN [old EXCEPT !.is_completed = TRUE,
                                           !.completed_at = clock]
                          ELSE reminders[j]
                 /\ new.origin = id
                 /\ new.user = old.user
                 /\ new.group = old.group
                 /\ new.title = old.title
                 /\ new.description = old.description
                 /\ new.reminder_type = old.reminder_type
                 /\ new.amount = old.amount
                 /\ new.is_recurring = old.is_recurring
                 /\ new.recurring_config = old.recurring_config
                 /\ new.reminder_date = get_next_occurrence(old)
                 /\ new.reminder_date # old.reminder_date
                 /\ ~new.is_completed
                 /\ new.completed_at = NullTime
                 /\ ~new.notification_sent]_vars

\* a group reminder completed by another member than its author, with the
\* occurrence created from it
C20_Witness ==
    \E id \in 1..Len(reminders), j \in 1..Len(reminders) :
        /\ reminders[j].origin = id
        /\ reminders[id].is_completed
        /\ reminders[id].group = "voyage"
        /\ reminders[j].group = "voyage"
        /\ ~reminders[j].is_completed
        /\ reminders[j].reminder_date = get_next_occurrence(reminders[id])

\* ------------------------------------------------------------------------
\* Properties of the category budget
\* ------------------------------------------------------------------------
\* C16: get_budget_status returns None only for a category without budget;
\* with budget 0 it returns a status whose percentage is 0
C16_NoneOnlyWhenBudgetUnset ==
    budget_status.called =>
        /\ budget_status.status = NoStatus => budget_status.budget = NoBudget
        /\ budget_status.budget = 0 =>
              /\ budget_status.status.returned = "dict"
              /\ budget_status.status.percentage = 0

\* C17: for a fixed budget and threshold the reported percentage does not
\* decrease when spent grows, is_alert is true exactly when the reported
\* percentage is at least the threshold, and is_alert stays true when spent
\* grows
C17_PercentageMonotoneAlertExact ==
    budget_status.budget > 0 =>
        \A amount \in ExpenseAmounts, tie_now \in BOOLEAN, tie_later \in BOOLEAN :
            LET now == get_budget_status(budget_status.budget,
                                         budget_status.threshold,
                                         budget_status.spent, tie_now)
                later == get_budget_status(budget_status.budget,
                                           budget_status.threshold,
                                           budget_status.spent + amount,
                                           tie_later)
            IN  /\ now.percentage <= later.percentage
                /\ now.is_alert <=> now.percentage >= 100 * budget_status.threshold
                /\ now.is_alert => later.is_alert

\* ------------------------------------------------------------------------
\* Further properties of the split operation
\* ------------------------------------------------------------------------
\* an equal-mode request
EqualRequest ==
    [equal_split |-> TRUE, splits |-> <<[user |-> "alice", amount |-> 1]>>]

\* C21: after an equal-mode split, running the same equal-mode split again
\* on the unchanged membership gives every member the same amount again
C21_EqualSplitIdempotent ==
    [][\A actor \in Users :
          (Split(actor, EqualRequest) /\ split_resp' = "201")
          => (SplitOutcome(EqualRequest))' = [tbl |-> splits', resp |-> "201"]]_vars

\* an equal split among several members whose shares are positive
C21_Witness ==
    /\ split_resp = "201"
    /\ tx.exists /\ tx.group # "none"
    /\ members_count(tx.group) >= 2
    /\ \A u \in Users : is_member(tx.group, u) <=> splits[u] # Absent
    /\ \A u \in Users :
          is_member(tx.group, u) =>
             splits[u] = StoredShare(tx.amount, members_count(tx.group))
    /\ \E u \in Users : splits[u] # Absent /\ splits[u] > 0

\* ------------------------------------------------------------------------
\* Further properties of transactions and categories
\* ------------------------------------------------------------------------
\* u is an active member of the group of the transaction, did not create it
\* and is not an admin of the group
OtherPlainMember(u) ==
    /\ tx.exists /\ ~tx.is_deleted
    /\ tx.group # "none"
    /\ is_member(tx.group, u)
    /\ tx.user # u
    /\ ~is_admin(tx.group, u)

\* C22: a request to delete a group transaction, or to change its amount,
\* sent by an active member who neither created it nor is an admin of the
\* group leaves the transaction unchanged
C22_OnlyCreatorOrAdminWrites ==
    [][\A u \in Users :
          (/\ OtherPlainMember(u)
           /\ \/ TransactionDestroy(u)
              \/ \E a \in 1..MaxAmount :
                    TransactionPartialUpdate(u, Omitted, Omitted, a, Omitted))
          => tx' = tx]_vars

\* C23: an update or a delete request on a system category, by any user,
\* leaves the category in place with every field unchanged
C23_SystemCategoriesImmutable ==
    [][\A u \in Users, c \in CatIds :
          (/\ categories[c].exists
           /\ categories[c].is_system
           /\ \/ CategoryDestroy(u, c)
              \/ \E t \in CategoryTypes : CategoryPartialUpdate(u, c, t))
          => categories'[c] = categories[c]]_vars

\* ------------------------------------------------------------------------
\* Further properties of the category budget
\* ------------------------------------------------------------------------
\* the category has a budget and its month-to-date percentage is at or
\* above its alert threshold
OverThreshold ==
    /\ budget_status.budget > 0
    /\ budget_status.spent * 100 >= budget_status.threshold * budget_status.budget

\* a budget alert was sent for the category in the last 24 hours
AnyRecentAlert ==
    \E alert_type \in {"warning", "over_budget"} :
        AlertedRecently(budget_status, alert_type)

\* C24: a run of check_all_budgets sends a budget alert for the budgeted
\* category that is at or above its threshold, unless the user disabled the
\* budget alerts or an alert was sent in the last 24 hours
C24_TaskSendsDueAlerts ==
    [][(/\ OverThreshold
        /\ budget_status.email_budget_alerts
        /\ ~AnyRecentAlert
        /\ CheckAllBudgets(TRUE, TRUE))
       => budget_status'.alerts = budget_status.alerts + 1]_vars

\* ------------------------------------------------------------------------
\* Properties of the registration by code
\* ------------------------------------------------------------------------
\* the answer of a successful VerifyCode for purpose registration
VerifiedForRegistration ==
    [view |-> "verify", status |-> "200", reason |-> "can_create_account"]

\* C25: after VerifyCode succeeded for purpose registration, a following
\* RegisterWithCode with the same email and the same code, before the code
\* expires and with no account on that email, creates the account
C25_RegisterAfterVerify ==
    [][(/\ auth_resp = VerifiedForRegistration
        /\ ~user_exists
        /\ ~is_expired(codes[Len(codes)])
        /\ RegisterWithCode(codes[Len(codes)].code))
       => user_exists']_vars

\* a code that can no longer be verified
Spent(row) ==
    \/ row.is_used
    \/ is_expired(row)
    \/ row.attempts >= row.max_attempts

\* C29: once a code is used, expired or has max_attempts attempts, a
\* request that submits any value, the right one included, is refused and
\* changes neither attempts nor is_used of that code
C29_SpentCodeStaysSpent ==
    [][\A code \in OtpValues :
          (VerifyCode(code) \/ RegisterWithCode(code)) =>
             /\ \A i \in 1..Len(codes) :
                   Spent(codes[i]) =>
                      /\ verify(codes[i], code) = [ok |-> FALSE, row |-> codes[i]]
                      /\ codes'[i] = codes[i]
             /\ (\A i \in 1..Len(codes) : Spent(codes[i])) =>
                   /\ auth_resp'.status = "400"
                   /\ user_exists' = user_exists]_vars

\* the right code submitted to a code that has used up its attempts, and
\* refused
C29_Witness ==
    /\ auth_resp.reason \in {"max_attempts", "incorrect_or_expired"}
    /\ codes # <<>>
    /\ codes[Len(codes)].attempts = OTP_MAX_ATTEMPTS
    /\ ~codes[Len(codes)].is_used
    /\ ~user_exists

\* ------------------------------------------------------------------------
\* Properties of the deposits
\* ------------------------------------------------------------------------
\* C30: the wallet is credited with the amount of a deposit at most once,
\* however many completed webhooks arrive for its reference and however
\* they interleave with status polling
C30_CreditedAtMostOnce ==
    /\ wallet.credits <= 1
    /\ wallet.balance <= payment.amount

\* ------------------------------------------------------------------------
\* Further properties of the group balance
\* ------------------------------------------------------------------------
\* C26: once the expense of the group is soft-deleted, a balance report
\* counts it in no member's total_paid and in no member's total_owed: every
\* line is what it would be had the expense never been recorded
C26_DeletedExpenseNotCounted ==
    [][\A actor \in Users :
          (/\ tx.exists /\ tx.is_deleted /\ tx.group = "voyage"
           /\ GroupBalanceGet(actor, "voyage"))
          => \A u \in Users :
                is_member("voyage", u) =>
                   balance_report'.members[u] =
                      [listed |-> TRUE, total_paid |-> 0, total_owed |-> 0,
                       balance |-> 0]]_vars

\* ------------------------------------------------------------------------
\* Properties of the member limit
\* ------------------------------------------------------------------------
\* C27: whatever invitations are sent and accepted, a group never has more
\* than MAX_GROUP_MEMBERS active members, also when invitations sent below
\* the limit are accepted later
C27_MemberLimitHolds == crowd.active <= MAX_GROUP_MEMBERS

\* ------------------------------------------------------------------------
\* Properties of the recurrence rules
\* ------------------------------------------------------------------------
\* C28: for every recurring reminder the validation accepted, the next
\* occurrence, when there is one, is strictly later than reminder_date (so
\* that a chain of occurrences with an end_date comes to an end)
C28_NextOccurrenceIsLater ==
    \A i \in 1..Len(reminders) :
       (reminders[i].is_recurring
        /\ get_next_occurrence(reminders[i]) # NoDate)
       => After(get_next_occurrence(reminders[i]), reminders[i].reminder_date)

====
